---- MODULE Spec2Model ----
(***************************************************************************)
(* A model of the private star-registry blockchain: the Blockchain class   *)
(* of src/src/blockchain.js and the second copy of that class kept in      *)
(* src/unnamed/part_000.  The two copies share the constructor, _addBlock  *)
(* and the scan of validateChain; they differ in submitStar.  An instance  *)
(* is built from one copy or the other: impl says which.                   *)
(*                                                                         *)
(* JavaScript runs one job at a time: a promise executor runs              *)
(* synchronously up to its first await, and every continuation after an    *)
(* await is a separate job.  One action of the model is one such job.      *)
(***************************************************************************)
EXTENDS Integers, Sequences, FiniteSets, TLC

VARIABLES
    impl,      \* which copy of the class the instance is built from
    chain,     \* this.chain
    height,    \* this.height
    now,       \* the wall clock, Date.getTime(), in milliseconds
    ticks,     \* how often the clock has been advanced
    subs,      \* the submitStar calls: inputs, position, promise
    vcall,     \* the promise of the last direct validateChain() call
    tampers,   \* how many stored blocks a caller has overwritten
    stars,     \* the last getStarsByWalletAddress call: its array, its jobs
    found,     \* the promise of the last getBlockByHeight call
    issued     \* the message of the last requestMessageOwnershipVerification

\* what the lookups and the challenge issue write
reads == <<stars, found, issued>>

vars == <<impl, chain, height, now, ticks, subs, vcall, tampers, stars, found,
          issued>>

-----------------------------------------------------------------------------
(* Bounds of the model *)

\* number of submitStar calls made on the instance
MaxSubs == 2
\* number of submitStar calls made while the clock runs (Spec)
MaxTimedSubs == 1
\* number of times the wall clock is advanced
MaxTicks == 3
\* length of the chain up to which _addBlock is called directly
MaxChain == 2
\* number of stored blocks a caller overwrites
MaxTampers == 1

\* Date.getTime() at construction, in milliseconds
StartMs == 1000500
\* the clock advances by one second or by 299 seconds
TickSteps == {1000, 299000}

SubIds == 1..MaxSubs

-----------------------------------------------------------------------------
(* JavaScript values *)

\* a JavaScript number: NaN, or the integer v
NaN == [nan |-> TRUE, v |-> 0]
Num(n) == [nan |-> FALSE, v |-> n]

\* a - b
JsSub(a, b) == IF a.nan \/ b.nan THEN NaN ELSE Num(a.v - b.v)
\* a < b: false when either side is NaN
JsLt(a, b) == ~a.nan /\ ~b.nan /\ a.v < b.v
\* a > b: false when either side is NaN
JsGt(a, b) == ~a.nan /\ ~b.nan /\ a.v > b.v

\* strings are sequences of one-character strings
DigitChars == <<"0", "1", "2", "3", "4", "5", "6", "7", "8", "9">>
IsDigit(c) == \E d \in 1..10 : DigitChars[d] = c
DigitVal(c) == (CHOOSE d \in 1..10 : DigitChars[d] = c) - 1

\* Number.prototype.toString() of a non-negative integer
RECURSIVE NumToString(_)
NumToString(n) ==
    IF n < 10 THEN <<DigitChars[n + 1]>>
    ELSE NumToString(n \div 10) \o <<DigitChars[(n % 10) + 1]>>

\* String.prototype.slice(0, -3)
Slice3(s) == IF Len(s) <= 3 THEN <<>> ELSE SubSeq(s, 1, Len(s) - 3)

\* new Date().getTime().toString().slice(0,-3)
TimeString(clock) == Slice3(NumToString(clock))

\* the number of leading decimal digits of s
RECURSIVE LeadingDigits(_)
LeadingDigits(s) ==
    IF s = <<>> \/ ~IsDigit(Head(s)) THEN 0 ELSE 1 + LeadingDigits(Tail(s))

RECURSIVE DigitsValue(_)
DigitsValue(s) ==
    IF s = <<>> THEN 0
    ELSE 10 * DigitsValue(SubSeq(s, 1, Len(s) - 1)) + DigitVal(s[Len(s)])

\* parseInt(s): an optional sign, then the longest prefix of digits; NaN if none
ParseInt(s) ==
    LET signed == s # <<>> /\ Head(s) \in {"-", "+"}
        t == IF signed THEN Tail(s) ELSE s
        n == LeadingDigits(t)
        v == DigitsValue(SubSeq(t, 1, n))
    IN IF n = 0 THEN NaN
       ELSE IF signed /\ Head(s) = "-" THEN Num(0 - v) ELSE Num(v)

\* String.prototype.split(sep): the fields between the separators
RECURSIVE Split(_, _)
Split(s, sep) ==
    IF \A i \in 1..Len(s) : s[i] # sep THEN <<s>>
    ELSE LET k == CHOOSE i \in 1..Len(s) :
                      s[i] = sep /\ \A j \in 1..(i - 1) : s[j] # sep
         IN <<SubSeq(s, 1, k - 1)>> \o Split(SubSeq(s, k + 1, Len(s)), sep)

\* what parseInt makes of undefined: the string "undefined"
Undefined == <<"u", "n", "d", "e", "f", "i", "n", "e", "d">>

\* message.split(':')[0], taken for the time of the message
SecondField_first(message) == Split(message, ":")[1]

\* message.split(':')[1]
SecondField(message) ==
    LET f == Split(message, ":") IN IF Len(f) >= 2 THEN f[2] ELSE Undefined

-----------------------------------------------------------------------------
(* Blocks *)

\* null
Null == <<>>

\* crypto-js SHA256 over JSON.stringify(block), taken as collision free: the
\* digest is the serialised fields themselves (the hash field is still the
\* constructor's null when the digest is taken)
SHA256(b) == <<b.height, b.time, b.previousBlockHash, b.body>>

\* new BlockClass.Block(data): the body holds the encoded data
NewBlock(data) ==
    [hash |-> Null, height |-> 0, body |-> data, time |-> <<"0">>,
     previousBlockHash |-> Null]

\* Block.validate(): the stored hash against the recomputed one
BlockValidate(b) == b.hash = SHA256(b)

GenesisData == <<"Genesis Block">>

\* Block.getBData(): the decoded data of the body
GetBData(b) == b.body

\* the address property of decoded data: undefined when the data has none
DataAddress(data) == IF Len(data) = 4 THEN data[1] ELSE "undefined"

\* _addBlock linking every block to the genesis block instead of the tail
_addBlock_genesisLink(ch, h, block, clock) ==
    LET b1 == [block EXCEPT
                  !.height = h + 1,
                  !.time = TimeString(clock),
                  !.previousBlockHash = IF h = -1 THEN Null ELSE ch[1].hash]
        b2 == [b1 EXCEPT !.hash = SHA256(b1)]
    IN [ok |-> TRUE, chain |-> Append(ch, b2), height |-> h + 1, block |-> b2]

\* _addBlock taking the hash before previousBlockHash is set
_addBlock_earlyHash(ch, h, block, clock) ==
    LET b1 == [block EXCEPT !.height = h + 1, !.time = TimeString(clock)]
        b2 == [b1 EXCEPT
                  !.hash = SHA256(b1),
                  !.previousBlockHash =
                      IF h = -1 THEN Null ELSE ch[Len(ch)].hash]
    IN [ok |-> TRUE, chain |-> Append(ch, b2), height |-> h + 1, block |-> b2]

\* _addBlock that updates this.height only for the genesis block
_addBlock_staleHeight(ch, h, block, clock) ==
    LET b1 == [block EXCEPT
                  !.height = h + 1,
                  !.time = TimeString(clock),
                  !.previousBlockHash =
                      IF h = -1 THEN Null ELSE ch[Len(ch)].hash]
        b2 == [b1 EXCEPT !.hash = SHA256(b1)]
    IN [ok |-> TRUE, chain |-> Append(ch, b2),
        height |-> IF h = -1 THEN 0 ELSE h, block |-> b2]

\* _addBlock that takes the genesis branch for the block above genesis too
_addBlock_nullLink(ch, h, block, clock) ==
    LET b1 == [block EXCEPT
                  !.height = h + 1,
                  !.time = TimeString(clock),
                  !.previousBlockHash =
                      IF h <= 0 THEN Null ELSE ch[Len(ch)].hash]
        b2 == [b1 EXCEPT !.hash = SHA256(b1)]
    IN [ok |-> TRUE, chain |-> Append(ch, b2), height |-> h + 1, block |-> b2]

\* _addBlock that puts the block below the blocks of the chain
_addBlock_unshift(ch, h, block, clock) ==
    LET b1 == [block EXCEPT
                  !.height = h + 1,
                  !.time = TimeString(clock),
                  !.previousBlockHash =
                      IF h = -1 THEN Null ELSE ch[Len(ch)].hash]
        b2 == [b1 EXCEPT !.hash = SHA256(b1)]
    IN [ok |-> TRUE, chain |-> <<b2>> \o ch, height |-> h + 1, block |-> b2]

\* _addBlock(block) on a store with chain ch and height h, at time clock.
\* The executor has no await: it runs as one job.  ok is FALSE when the
\* executor threw (no tail to read), which leaves the promise pending.
_addBlock(ch, h, block, clock) ==
    IF h # -1 /\ ch = <<>>
    THEN [ok |-> FALSE, chain |-> ch, height |-> h,
          block |-> [block EXCEPT !.height = h + 1, !.time = TimeString(clock)]]
    ELSE LET b1 == [block EXCEPT
                       !.height = h + 1,
                       !.time = TimeString(clock),
                       !.previousBlockHash =
                           IF h = -1 THEN Null ELSE ch[Len(ch)].hash]
             b2 == [b1 EXCEPT !.hash = SHA256(b1)]
         IN [ok |-> TRUE, chain |-> Append(ch, b2), height |-> h + 1,
             block |-> b2]

-----------------------------------------------------------------------------
(* validateChain *)

\* var previous_Block_Hash = 0
ZeroHash == <<0>>

\* the entry pushed for a block that fails validate()
BlockError(b) == [kind |-> "block", height |-> b.height]
\* the entry pushed for a block whose previousBlockHash is not the hash before
LinkError(b) == [kind |-> "link", height |-> b.height]

\* the forEach with the link test made before validate()
RECURSIVE ValidateFrom_linkFirst(_, _, _, _)
ValidateFrom_linkFirst(ch, i, prev, log) ==
    IF i > Len(ch) THEN [settled |-> "resolved", errorLog |-> log]
    ELSE LET b == ch[i]
             p == IF b.height = 0 THEN b.hash ELSE prev
         IN IF ~(b.height = 0 \/ b.previousBlockHash = p)
            THEN [settled |-> "pending", errorLog |-> Append(log, LinkError(b))]
            ELSE IF BlockValidate(b)
            THEN ValidateFrom_linkFirst(ch, i + 1, b.hash, log)
            ELSE [settled |-> "pending", errorLog |-> Append(log, BlockError(b))]

\* The forEach of validateChain from index i on, with the previous hash prev
\* and the log so far.  ChainIsValid is declared const: the assignment
\* ChainIsValid = false that follows the first push throws a TypeError, which
\* ends the async executor with its promise still pending.
RECURSIVE ValidateFrom(_, _, _, _)
ValidateFrom(ch, i, prev, log) ==
    IF i > Len(ch) THEN [settled |-> "resolved", errorLog |-> log]
    ELSE LET b == ch[i]
             p == IF b.height = 0 THEN b.hash ELSE prev
         IN IF ~BlockValidate(b)
            THEN [settled |-> "pending", errorLog |-> Append(log, BlockError(b))]
            ELSE IF b.height = 0 \/ b.previousBlockHash = p
            THEN ValidateFrom(ch, i + 1, b.hash, log)
            ELSE [settled |-> "pending", errorLog |-> Append(log, LinkError(b))]

\* validateChain(): settled is "resolved" (with true) or "pending" for ever
validateChain(ch) == ValidateFrom(ch, 1, ZeroHash, <<>>)

-----------------------------------------------------------------------------
(* submitStar *)

Addresses == {"a"}
Stars == {"star"}
\* a signature that verifies, one that does not, one that makes verify throw
Signatures == {"good", "bad", "malformed"}

\* `${address}:${seconds}:starRegistry`, address being the characters of the
\* caller's string
Challenge(address, clock) ==
    address \o <<":">> \o TimeString(clock) \o
    <<":", "s", "t", "a", "r", "R", "e", "g", "i", "s", "t", "r", "y">>

\* the messages a caller submits: the challenge issued at construction time,
\* one with no second field and one whose second field is no number
Messages ==
    { Challenge(<<"a">>, StartMs),
      <<"a">>,
      <<"a", ":", "x", "1", ":", "s">> }

\* bitcoinMessage.verify(message, address, signature): "true", "false", "throws"
Verify(message, address, signature) ==
    CASE signature = "good" -> "true"
      [] signature = "bad" -> "false"
      [] OTHER -> "throws"

\* if( delaie < 300 ) of src/src/blockchain.js, if( ... > 300) of part_000
FiveMinutes == 300
FiveMinutesP0 == 300

\* the window test one second short
WithinWindow_short(delaie) == JsLt(delaie, Num(FiveMinutes - 1))

\* src/src/blockchain.js: delaie < 300
WithinWindow(delaie) == JsLt(delaie, Num(FiveMinutes))
\* part_000: (currentTime - messageTime) > 300
TimeElapsed(elapsed) == JsGt(elapsed, Num(FiveMinutesP0))

\* the test passing whenever verify returned at all
BooMessageVerified_returned(outcome) == outcome # "throws"

\* a check that takes every outcome of verify but false as a pass
BooMessageVerified_notFalse(outcome) == outcome # "false"

\* src/src/blockchain.js: if(BooMessageVerified == true), on verify's outcome
BooMessageVerified(outcome) == outcome = "true"
\* part_000: isVerified, which stays false when verify throws
isVerified(outcome) == outcome = "true"

\* currentTime - parseInt(message.split(':')[1])
Elapsed(message, clock) ==
    JsSub(ParseInt(TimeString(clock)), ParseInt(SecondField(message)))

\* the rejection reasons
DelayReached == "The 5 minute delay has been reached"
VerifyError == "There was a error verifiyng your message."
DelayElapsedP0 == "submitStar: more than five minutes have elapsed"

\* a promise's value: a string, or a block.  A block that is in the chain is
\* held by reference: index is its place in chain (0: not in the chain)
NoBlock == NewBlock(<<"none">>)
NoValue == [kind |-> "none", text |-> ""]
StringValue(text) == [kind |-> "string", text |-> text]
BlockValue == [kind |-> "block", text |-> ""]

\* a submitStar call that has not been made
IdleSub ==
    [pc |-> "idle", address |-> "a", message |-> <<>>, signature |-> "bad",
     star |-> "star", at |-> 0, verifyCalls |-> 0, index |-> 0,
     block |-> NoBlock, validation |-> "none", errorLog |-> <<>>,
     state |-> "pending", value |-> NoValue]

\* resolve(v) or reject(v): a promise settles once, later calls change nothing
Settle(sub, st, v) ==
    IF sub.state = "pending" THEN [sub EXCEPT !.state = st, !.value = v]
    ELSE sub

\* star data that leaves the star out
StarData_noStar(address, message, signature, star) ==
    <<address, message, signature>>

\* the data of a star block
StarData(address, message, signature, star) ==
    <<address, message, signature, star>>

\* await this._addBlock(block) inside submitStar: the append is part of the
\* calling job; the call then waits (or hangs, when _addBlock threw)
Appended(sub, r) ==
    [sub EXCEPT !.block = r.block,
                !.index = IF r.ok THEN Len(r.chain) ELSE 0,
                !.pc = IF r.ok THEN "awaitAdd" ELSE "hung"]

\* src/src/blockchain.js submitStar, from the call to the first await
submitStar(s, address, message, signature, star) ==
    /\ impl = "blockchain.js"
    /\ subs[s].pc = "idle"
    /\ \A t \in 1..(s - 1) : subs[t].pc # "idle"
    /\ LET sub == [IdleSub EXCEPT !.address = address, !.message = message,
                                  !.signature = signature, !.star = star,
                                  !.at = now]
           delaie == Elapsed(message, now)
       IN IF WithinWindow(delaie)
          THEN LET called == [sub EXCEPT !.verifyCalls = 1]
               IN IF BooMessageVerified(Verify(message, address, signature))
                  THEN LET r == _addBlock(chain, height,
                                    NewBlock(StarData(address, message,
                                                      signature, star)), now)
                       IN /\ chain' = r.chain
                          /\ height' = r.height
                          /\ subs' = [subs EXCEPT ![s] = Appended(called, r)]
                  ELSE /\ subs' = [subs EXCEPT ![s] =
                              [Settle(called, "rejected",
                                      StringValue(VerifyError))
                                  EXCEPT !.pc = "done"]]
                       /\ UNCHANGED <<chain, height>>
          ELSE /\ subs' = [subs EXCEPT ![s] =
                      [Settle(sub, "rejected", StringValue(DelayReached))
                          EXCEPT !.pc = "done"]]
               /\ UNCHANGED <<chain, height>>
    /\ UNCHANGED <<reads, impl, now, ticks, vcall, tampers>>

\* src/src/blockchain.js submitStar after await this._addBlock(blockToPush):
\* validateChain() runs, and the call waits for its promise, for ever when
\* the scan threw
afterAddBlock(s) ==
    /\ impl = "blockchain.js"
    /\ subs[s].pc = "awaitAdd"
    /\ LET r == validateChain(chain)
       IN subs' = [subs EXCEPT ![s] =
              [@ EXCEPT !.validation =
                            IF r.errorLog = <<>> THEN "valid" ELSE "invalid",
                        !.errorLog = r.errorLog,
                        !.pc = IF r.settled = "resolved" THEN "awaitValidate"
                               ELSE "hung"]]
    /\ UNCHANGED <<reads, impl, chain, height, now, ticks, vcall, tampers>>

\* src/src/blockchain.js submitStar after await this.validateChain(), which
\* resolved with true: blockchain_valide_boo == true
afterValidateChain(s) ==
    /\ impl = "blockchain.js"
    /\ subs[s].pc = "awaitValidate"
    /\ subs' = [subs EXCEPT ![s] =
           [Settle(@, "resolved", BlockValue) EXCEPT !.pc = "done"]]
    /\ UNCHANGED <<reads, impl, chain, height, now, ticks, vcall, tampers>>

\* part_000 submitStar, from the call to the first await
submitStar_part_000(s, address, message, signature, star) ==
    /\ impl = "part_000"
    /\ subs[s].pc = "idle"
    /\ \A t \in 1..(s - 1) : subs[t].pc # "idle"
    /\ LET sub == [IdleSub EXCEPT !.address = address, !.message = message,
                                  !.signature = signature, !.star = star,
                                  !.at = now]
           flagTimeElapsed == TimeElapsed(Elapsed(message, now))
           timed == IF flagTimeElapsed
                    THEN Settle(sub, "rejected", StringValue(DelayElapsedP0))
                    ELSE sub
           called == [timed EXCEPT !.verifyCalls = 1]
           verified == isVerified(Verify(message, address, signature))
           block == NewBlock(StarData(address, message, signature, star))
       IN IF ~verified \/ flagTimeElapsed
          THEN /\ subs' = [subs EXCEPT ![s] =
                      [Settle([called EXCEPT !.block = block], "rejected",
                              BlockValue)
                          EXCEPT !.pc = "done"]]
               /\ UNCHANGED <<chain, height>>
          ELSE LET r == _addBlock(chain, height, block, now)
               IN /\ chain' = r.chain
                  /\ height' = r.height
                  /\ subs' = [subs EXCEPT ![s] = Appended(called, r)]
    /\ UNCHANGED <<reads, impl, now, ticks, vcall, tampers>>

\* part_000 submitStar after await this._addBlock(block): validateChain() is
\* called and not awaited, and the call resolves with the block
afterAddBlock_part_000(s) ==
    /\ impl = "part_000"
    /\ subs[s].pc = "awaitAdd"
    /\ LET r == validateChain(chain)
       IN subs' = [subs EXCEPT ![s] =
              [Settle(@, "resolved", BlockValue)
                  EXCEPT !.validation =
                             IF r.errorLog = <<>> THEN "valid" ELSE "invalid",
                         !.errorLog = r.errorLog,
                         !.pc = "done"]]
    /\ UNCHANGED <<reads, impl, chain, height, now, ticks, vcall, tampers>>

-----------------------------------------------------------------------------
(* The other operations *)

\* a direct call of _addBlock(block)
AddBlockCall(data) ==
    /\ Len(chain) < MaxChain
    /\ LET r == _addBlock(chain, height, NewBlock(data), now)
       IN /\ r.ok
          /\ chain' = r.chain
          /\ height' = r.height
    /\ UNCHANGED <<reads, impl, now, ticks, subs, vcall, tampers>>

\* a direct call of validateChain()
ValidateChainCall ==
    /\ LET r == validateChain(chain)
       IN vcall' = [called |-> TRUE, settled |-> r.settled,
                    errorLog |-> r.errorLog]
    /\ UNCHANGED <<reads, impl, chain, height, now, ticks, subs, tampers>>

\* the wall clock advances
Tick(d) ==
    /\ ticks < MaxTicks
    /\ now' = now + d
    /\ ticks' = ticks + 1
    /\ UNCHANGED <<reads, impl, chain, height, subs, vcall, tampers>>

\* A caller overwrites the body or the previousBlockHash of a stored block:
\* getBlockByHeight and getBlockByHash resolve with the stored object itself
TamperedBody == <<"tampered">>
TamperedHash == <<1>>
Tamper(i, field) ==
    /\ tampers < MaxTampers
    /\ i \in 1..Len(chain)
    /\ chain' = [chain EXCEPT ![i] =
           IF field = "body" THEN [@ EXCEPT !.body = TamperedBody]
           ELSE [@ EXCEPT !.previousBlockHash = TamperedHash]]
    /\ chain' # chain
    /\ tampers' = tampers + 1
    /\ UNCHANGED <<reads, impl, height, now, ticks, subs, vcall>>

-----------------------------------------------------------------------------
(* The lookups and the challenge *)

\* the addresses that own stars
OwnerAddresses == {"a", "b"}

\* getBlockByHeight with the tail of the filter taken for its head
getBlockByHeight_last(ch, h) ==
    LET m == SelectSeq(ch, LAMBDA p : p.height >= h)
    IN IF m # <<>> THEN [null |-> FALSE, block |-> m[Len(m)]]
       ELSE [null |-> TRUE, block |-> NoBlock]

\* getBlockByHeight(height): self.chain.filter(p => p.height === height)[0],
\* or null
getBlockByHeight(ch, h) ==
    LET m == SelectSeq(ch, LAMBDA p : p.height = h)
    IN IF m # <<>> THEN [null |-> FALSE, block |-> m[1]]
       ELSE [null |-> TRUE, block |-> NoBlock]

\* a call of getBlockByHeight(h)
GetBlockByHeightCall(h) ==
    /\ LET r == getBlockByHeight(chain, h)
       IN found' = [called |-> TRUE, h |-> h, null |-> r.null,
                    block |-> r.block]
    /\ UNCHANGED <<impl, chain, height, now, ticks, subs, vcall, tampers,
                   stars, issued>>

\* the jobs the forEach of getStarsByWalletAddress leaves behind: one per
\* block, each waiting at await block.getBData() with the data it decoded
RECURSIVE PendingBData(_, _)
PendingBData(ch, i) ==
    IF i > Len(ch) THEN <<>>
    ELSE <<[height |-> ch[i].height, data |-> GetBData(ch[i])]>>
         \o PendingBData(ch, i + 1)

\* getStarsByWalletAddress(address), the calling job: forEach starts an async
\* callback per block, each stops at its await, and resolve(stars) follows
getStarsByWalletAddress(address) ==
    /\ stars.pending = <<>>
    /\ stars' = [state |-> "resolved", address |-> address, results |-> <<>>,
                 pending |-> PendingBData(chain, 1)]
    /\ UNCHANGED <<impl, chain, height, now, ticks, subs, vcall, tampers,
                   found, issued>>

\* src/src/blockchain.js: the callback after its await skips the genesis
\* block and pushes the data whose address is the one asked for
Pushes(job, address) == job.height # 0 /\ DataAddress(job.data) = address
\* part_000: the callback pushes the data whose address is the one asked for
Pushes_part_000(job, address) == DataAddress(job.data) = address

\* the callback of the next block runs on from its await
afterGetBData ==
    /\ stars.pending # <<>>
    /\ LET job == Head(stars.pending)
           push == IF impl = "blockchain.js" THEN Pushes(job, stars.address)
                   ELSE Pushes_part_000(job, stars.address)
       IN stars' = [stars EXCEPT
              !.pending = Tail(@),
              !.results = IF push THEN Append(@, job.data) ELSE @]
    /\ UNCHANGED <<impl, chain, height, now, ticks, subs, vcall, tampers,
                   found, issued>>

\* the strings a caller may pass as the address of a challenge: the route
\* hands on whatever the request holds, a colon included
MaxAddressLen == 2
AddressChars == {"a", ":"}
WalletAddresses ==
    UNION {[1..n -> AddressChars] : n \in 0..MaxAddressLen}

\* requestMessageOwnershipVerification(address) resolves with the message
requestMessageOwnershipVerification(address) ==
    /\ issued' = Challenge(address, now)
    /\ UNCHANGED <<impl, chain, height, now, ticks, subs, vcall, tampers,
                   stars, found>>

-----------------------------------------------------------------------------
(* The specifications *)

Impls == {"blockchain.js", "part_000"}

\* initializeChain() whose append is left to a later job
initializeChain_deferred(ch, h, clock) ==
    [ok |-> TRUE, chain |-> ch, height |-> h, block |-> NewBlock(GenesisData)]

\* initializeChain() on a store with chain ch and height h, up to its await:
\* the executor of _addBlock has no await, so the genesis block is pushed
\* within the call
initializeChain(ch, h, clock) ==
    IF h = -1 THEN _addBlock(ch, h, NewBlock(GenesisData), clock)
    ELSE [ok |-> TRUE, chain |-> ch, height |-> h,
          block |-> NewBlock(GenesisData)]

NoStars ==
    [state |-> "none", address |-> "a", results |-> <<>>, pending |-> <<>>]
NotFound == [called |-> FALSE, h |-> 0, null |-> TRUE, block |-> NoBlock]

\* the state the constructor leaves: chain = [], height = -1, then
\* initializeChain() and validateChain(), neither awaited
Init ==
    /\ impl \in Impls
    /\ now = StartMs
    /\ ticks = 0
    /\ LET r == initializeChain(<<>>, -1, StartMs)
       IN chain = r.chain /\ height = r.height
    /\ subs = [s \in SubIds |-> IdleSub]
    /\ vcall = [called |-> FALSE, settled |-> "pending", errorLog |-> <<>>]
    /\ tampers = 0
    /\ stars = NoStars
    /\ found = NotFound
    /\ issued = <<>>

\* Submissions of every kind of message and signature while the clock runs
Next ==
    \/ \E s \in 1..MaxTimedSubs, a \in Addresses, m \in Messages,
          g \in Signatures, st \in Stars : submitStar(s, a, m, g, st)
    \/ \E s \in SubIds : afterAddBlock(s)
    \/ \E s \in SubIds : afterValidateChain(s)
    \/ \E s \in 1..MaxTimedSubs, a \in Addresses, m \in Messages,
          g \in Signatures, st \in Stars : submitStar_part_000(s, a, m, g, st)
    \/ \E s \in SubIds : afterAddBlock_part_000(s)
    \/ \E d \in {<<"direct">>} : AddBlockCall(d)
    \/ ValidateChainCall
    \/ \E d \in TickSteps : Tick(d)

Spec == Init /\ [][Next]_vars

\* the challenge issued at construction time
FreshChallenge == Challenge(<<"a">>, StartMs)

\* Concurrent submissions of a fresh challenge: every interleaving of the
\* jobs of MaxSubs calls, and of direct calls
NextC ==
    \/ \E s \in SubIds, g \in Signatures :
          submitStar(s, "a", FreshChallenge, g, "star")
    \/ \E s \in SubIds : afterAddBlock(s)
    \/ \E s \in SubIds : afterValidateChain(s)
    \/ \E s \in SubIds, g \in Signatures :
          submitStar_part_000(s, "a", FreshChallenge, g, "star")
    \/ \E s \in SubIds : afterAddBlock_part_000(s)
    \/ \E d \in {<<"direct">>} : AddBlockCall(d)
    \/ ValidateChainCall

SpecC == Init /\ [][NextC]_vars

\* The same on a store whose blocks a caller may overwrite
NextT ==
    \/ \E s \in SubIds, g \in Signatures :
          submitStar(s, "a", FreshChallenge, g, "star")
    \/ \E s \in SubIds : afterAddBlock(s)
    \/ \E s \in SubIds : afterValidateChain(s)
    \/ \E s \in SubIds, g \in Signatures :
          submitStar_part_000(s, "a", FreshChallenge, g, "star")
    \/ \E s \in SubIds : afterAddBlock_part_000(s)
    \/ \E d \in {<<"direct">>} : AddBlockCall(d)
    \/ ValidateChainCall
    \/ \E i \in 1..(MaxSubs + MaxChain), f \in {"body", "previousBlockHash"} :
          Tamper(i, f)

SpecT == Init /\ [][NextT]_vars

\* The job queue runs every job that is ready: a call that waits at an await
\* whose promise has resolved goes on
JobsRun ==
    \A s \in SubIds :
        /\ WF_vars(afterAddBlock(s))
        /\ WF_vars(afterValidateChain(s))
        /\ WF_vars(afterAddBlock_part_000(s))

\* SpecT with the jobs scheduled fairly
SpecF == Init /\ [][NextT]_vars /\ JobsRun

\* the heights asked of getBlockByHeight: from -1 to one above any block
Heights == -1..(MaxSubs + MaxChain)

\* Submissions by two owners, direct calls, and the lookup of the stars of
\* a wallet address
NextG ==
    \/ \E s \in SubIds, a \in OwnerAddresses :
          submitStar(s, a, FreshChallenge, "good", "star")
    \/ \E s \in SubIds : afterAddBlock(s)
    \/ \E s \in SubIds : afterValidateChain(s)
    \/ \E s \in SubIds, a \in OwnerAddresses :
          submitStar_part_000(s, a, FreshChallenge, "good", "star")
    \/ \E s \in SubIds : afterAddBlock_part_000(s)
    \/ \E d \in {<<"direct">>} : AddBlockCall(d)
    \/ \E a \in OwnerAddresses : getStarsByWalletAddress(a)
    \/ afterGetBData

SpecG == Init /\ [][NextG]_vars

\* Every operation that leaves the blocks alone, beside the appends: the
\* lookup by height, validateChain and the issue of a challenge
NextH ==
    \/ \E s \in SubIds, g \in Signatures :
          submitStar(s, "a", FreshChallenge, g, "star")
    \/ \E s \in SubIds : afterAddBlock(s)
    \/ \E s \in SubIds : afterValidateChain(s)
    \/ \E s \in SubIds, g \in Signatures :
          submitStar_part_000(s, "a", FreshChallenge, g, "star")
    \/ \E s \in SubIds : afterAddBlock_part_000(s)
    \/ \E d \in {<<"direct">>} : AddBlockCall(d)
    \/ ValidateChainCall
    \/ \E h \in Heights : GetBlockByHeightCall(h)
    \/ \E a \in Addresses : requestMessageOwnershipVerification(<<a>>)

SpecH == Init /\ [][NextH]_vars

\* Every operation of the store together: submissions, direct appends,
\* validateChain, both lookups (by height: the bottom block and the second
\* block above it) and the issue of a challenge
NextA ==
    \/ \E s \in SubIds, g \in Signatures :
          submitStar(s, "a", FreshChallenge, g, "star")
    \/ \E s \in SubIds : afterAddBlock(s)
    \/ \E s \in SubIds : afterValidateChain(s)
    \/ \E s \in SubIds, g \in Signatures :
          submitStar_part_000(s, "a", FreshChallenge, g, "star")
    \/ \E s \in SubIds : afterAddBlock_part_000(s)
    \/ \E d \in {<<"direct">>} : AddBlockCall(d)
    \/ ValidateChainCall
    \/ \E h \in {0, 2} : GetBlockByHeightCall(h)
    \/ \E a \in Addresses : getStarsByWalletAddress(a)
    \/ afterGetBData
    \/ \E a \in Addresses : requestMessageOwnershipVerification(<<a>>)

SpecA == Init /\ [][NextA]_vars

\* One caller asks for challenges, for every address and while the clock
\* runs, and submits the last one as issued, at once or later (the time
\* check of submitStar reads the message and the clock alone, not the
\* address of the call)
NextR ==
    \/ \E a \in WalletAddresses :
          subs[1].pc = "idle" /\ requestMessageOwnershipVerification(a)
    \/ \E s \in {1}, g \in Signatures :
          issued # <<>> /\ submitStar(s, "a", issued, g, "star")
    \/ \E s \in SubIds : afterAddBlock(s)
    \/ \E s \in SubIds : afterValidateChain(s)
    \/ \E s \in {1}, g \in Signatures :
          issued # <<>> /\ submitStar_part_000(s, "a", issued, g, "star")
    \/ \E s \in SubIds : afterAddBlock_part_000(s)
    \/ \E d \in TickSteps : Tick(d)

SpecR == Init /\ [][NextR]_vars

-----------------------------------------------------------------------------
(* What the claims speak of *)

Started(s) == subs[s].pc # "idle"

\* seconds between the issue of FreshChallenge and the call s, by the clock
SecondsSinceIssue(s) == (subs[s].at \div 1000) - (StartMs \div 1000)

\* the call s was rejected with one of the two expiry reasons
RejectedAsExpired(s) ==
    /\ subs[s].state = "rejected"
    /\ subs[s].value \in {StringValue(DelayReached), StringValue(DelayElapsedP0)}

\* the call s was rejected at the signature check
RejectedAtSignature(s) ==
    /\ subs[s].state = "rejected"
    /\ ~RejectedAsExpired(s)
    /\ subs[s].index = 0

\* the blocks of the chain that a submitStar call appended
StarIndices == {i \in 1..Len(chain) : \E s \in SubIds : subs[s].index = i}

-----------------------------------------------------------------------------
(* C1: a submitStar call appends a block only if verify returned true and   *)
(* the challenge is not older than the window; a call rejected at the time  *)
(* check or at the signature check leaves chain and height as they were.    *)
C1_RejectedLeavesStore ==
    [][\A s \in SubIds :
          (subs[s].pc = "idle" /\ subs'[s].pc # "idle") =>
              /\ subs'[s].state = "rejected" =>
                     (chain' = chain /\ height' = height)
              /\ (chain' # chain \/ height' # height) =>
                     /\ subs'[s].signature = "good"
                     /\ ~JsGt(Elapsed(subs'[s].message, now),
                              Num(FiveMinutes))]_vars

\* a call rejected at the signature check, on a chain that has a block to lose
C1_Witness ==
    \E s \in SubIds :
        /\ RejectedAtSignature(s)
        /\ subs[s].signature = "bad"
        /\ subs[s].verifyCalls = 1
        /\ Len(chain) >= 2

(* C2: on a chain built by the constructor and by _addBlock and submitStar  *)
(* appends alone, validateChain reports success after each append: it       *)
(* resolves with true and records no violation.                             *)
C2_ValidAfterAppend ==
    /\ validateChain(chain) = [settled |-> "resolved", errorLog |-> <<>>]
    /\ \A s \in SubIds : subs[s].validation \in {"none", "valid"}
    /\ vcall.called => (vcall.settled = "resolved" /\ vcall.errorLog = <<>>)

\* a submission validated the chain after two appends
C2_Witness ==
    /\ Len(chain) >= 3
    /\ \E s \in SubIds : subs[s].validation = "valid" /\ subs[s].index = 3

(* C3: for every index i > 0, chain[i].height = i and                       *)
(* chain[i].previousBlockHash = chain[i-1].hash (chain[i] is the model's    *)
(* chain[i + 1]).                                                           *)
C3_HeightsAndLinks ==
    \A i \in 2..Len(chain) :
        /\ chain[i].height = i - 1
        /\ chain[i].previousBlockHash = chain[i - 1].hash

C3_Witness == Len(chain) >= 3 /\ chain[3].previousBlockHash # chain[1].hash

(* C4: N submissions in flight together that all pass both checks leave     *)
(* exactly N new blocks, one each, at distinct gap-free heights, each       *)
(* linked to the block below, under every interleaving of their jobs.       *)
C4_ConcurrentAppends ==
    LET passed == {s \in SubIds : subs[s].index > 0}
    IN /\ Cardinality(StarIndices) = Cardinality(passed)
       /\ \A s \in passed, t \in passed :
              subs[s].index = subs[t].index => s = t
       /\ \A s \in passed :
              LET b == chain[subs[s].index]
              IN /\ b.body = StarData(subs[s].address, subs[s].message,
                                      subs[s].signature, subs[s].star)
                 /\ b.height = subs[s].index - 1
                 /\ b.previousBlockHash = chain[subs[s].index - 1].hash
       /\ \A i \in 1..Len(chain) : chain[i].height = i - 1
       /\ height = Len(chain) - 1

\* every submission has appended and none has run a job since
C4_Witness ==
    /\ \A s \in SubIds : subs[s].pc = "awaitAdd"
    /\ Cardinality(StarIndices) = MaxSubs

(* C5: a challenge with embedded time T submitted at T + 299 seconds with a *)
(* signature that verifies is appended and, once settled, resolved with the *)
(* block; submitted at T + 301 seconds it is rejected as expired whatever   *)
(* the signature.                                                           *)
C5_WindowEdges ==
    \A s \in SubIds :
        (Started(s) /\ subs[s].message = FreshChallenge) =>
            /\ (SecondsSinceIssue(s) = 299 /\ subs[s].signature = "good") =>
                   /\ subs[s].index > 0
                   /\ subs[s].state # "rejected"
                   /\ subs[s].pc = "done" =>
                          (subs[s].state = "resolved"
                              /\ subs[s].value = BlockValue)
            /\ SecondsSinceIssue(s) = 301 =>
                   (RejectedAsExpired(s) /\ subs[s].index = 0)

\* a correctly signed challenge submitted 301 seconds after its issue
C5_Witness ==
    \E s \in SubIds :
        /\ subs[s].message = FreshChallenge
        /\ SecondsSinceIssue(s) = 301
        /\ subs[s].signature = "good"
        /\ RejectedAsExpired(s)

(* C6: the expiry test is exactly elapsed > 300: a challenge submitted     *)
(* 300 seconds after its issue is not expired and, correctly signed, is     *)
(* admitted; only an elapsed time above 300 is rejected as expired.         *)
C6_ExpiredOnlyAbove300 ==
    \A s \in SubIds :
        (Started(s) /\ subs[s].message = FreshChallenge) =>
            /\ (SecondsSinceIssue(s) = 300 /\ subs[s].signature = "good") =>
                   (~RejectedAsExpired(s) /\ subs[s].index > 0)
            /\ RejectedAsExpired(s) => SecondsSinceIssue(s) > 300

(* C7: when the challenge is expired, verify is never invoked for that      *)
(* submission.                                                              *)
C7_ExpiredNeverVerified ==
    \A s \in SubIds :
        (Started(s) /\ subs[s].message = FreshChallenge
            /\ SecondsSinceIssue(s) > 300) => subs[s].verifyCalls = 0

(* C8: a message with no parseable timestamp in its second field is         *)
(* rejected with an outcome of its own, neither the expiry one nor the      *)
(* signature one, and no block is appended, whatever verify returns.        *)
C8_MalformedRejected ==
    \A s \in SubIds :
        (Started(s) /\ subs[s].message \in Messages \ {FreshChallenge}) =>
            /\ subs[s].state = "rejected"
            /\ ~RejectedAsExpired(s)
            /\ subs[s].value \notin {StringValue(VerifyError), BlockValue}
            /\ subs[s].index = 0

\* the value a rejection carrying the validator's error log would have
ErrorLogValue == [kind |-> "errorLog", text |-> ""]

(* C9: when the validation after the append finds the chain invalid, the    *)
(* appended block stays in the chain and, once the call can run no further, *)
(* its promise is rejected with the validator's error log.                  *)
C9_InvalidReportedAsFailure ==
    \A s \in SubIds :
        subs[s].validation = "invalid" =>
            /\ subs[s].index \in 1..Len(chain)
            /\ chain[subs[s].index].hash = subs[s].block.hash
            /\ subs[s].pc \in {"done", "hung"} =>
                   (subs[s].state = "rejected" /\ subs[s].value = ErrorLogValue)

\* the log of a scan that walks every block: a "block" entry for each block
\* whose hash differs from the recomputed one and a "link" entry for each
\* block after the first whose previousBlockHash is not the hash before it
RECURSIVE FullErrorLog(_, _, _)
FullErrorLog(ch, i, prev) ==
    IF i > Len(ch) THEN <<>>
    ELSE LET b == ch[i]
             p == IF b.height = 0 THEN b.hash ELSE prev
         IN (IF BlockValidate(b) THEN <<>> ELSE <<BlockError(b)>>)
            \o (IF b.height = 0 \/ b.previousBlockHash = p THEN <<>>
                ELSE <<LinkError(b)>>)
            \o FullErrorLog(ch, i + 1, b.hash)

(* C10: validateChain is not fail-fast: on a chain with k >= 1 violations   *)
(* it walks every block and its promise settles with the list of all k      *)
(* violations in ascending height order.                                    *)
C10_FullViolationList ==
    [][(ValidateChainCall /\ FullErrorLog(chain, 1, ZeroHash) # <<>>) =>
          /\ vcall'.settled # "pending"
          /\ vcall'.errorLog = FullErrorLog(chain, 1, ZeroHash)]_vars

\* the places in chain of the blocks a caller has overwritten
TamperedAt ==
    {i \in 1..Len(chain) :
        chain[i].body = TamperedBody
            \/ chain[i].previousBlockHash = TamperedHash}

\* e is an entry of the log
InLog(e, log) == \E k \in 1..Len(log) : log[k] = e

RECURSIVE StarsOf(_, _, _)
StarsOf(ch, i, a) ==
    IF i > Len(ch) THEN <<>>
    ELSE (IF i > 1 /\ DataAddress(ch[i].body) = a THEN <<ch[i].body>>
          ELSE <<>>)
         \o StarsOf(ch, i + 1, a)

(* C12: at the moment its promise resolves, getStarsByWalletAddress(a)      *)
(* yields exactly the data of the blocks above the genesis block whose      *)
(* owner is a, in ascending height order.                                   *)
C12_StarsAtResolve ==
    [][\A a \in OwnerAddresses :
          getStarsByWalletAddress(a) =>
              (stars'.state = "resolved"
                  /\ stars'.results = StarsOf(chain, 1, a))]_vars

\* once every callback has run, the array holds the stars of the address as
\* the chain was at the call
C12_StarsOnceFilled ==
    [][(afterGetBData /\ stars'.pending = <<>>) =>
          \E n \in 1..Len(chain) :
              stars'.results = StarsOf(SubSeq(chain, 1, n), 1, stars.address)]_vars

(* C13: in every reachable state after construction the cached height       *)
(* equals chain.length - 1.                                                 *)
C13_HeightIsLengthLessOne == height = Len(chain) - 1

\* two submissions and a direct call have appended
C13_Witness == Len(chain) = 4 /\ height = 3

(* C14: in every reachable state chain[0] (the model's chain[1]) has height *)
(* 0 and previousBlockHash null, and it is the only block of the chain      *)
(* whose previousBlockHash is null.                                         *)
C14_GenesisAlone ==
    /\ chain # <<>>
    /\ chain[1].height = 0
    /\ chain[1].previousBlockHash = Null
    /\ \A i \in 1..Len(chain) : chain[i].previousBlockHash = Null => i = 1

\* a chain with blocks above genesis, one of them appended by a submission
C14_Witness ==
    /\ Len(chain) >= 3
    /\ chain[1].previousBlockHash = Null
    /\ \E s \in SubIds : subs[s].index = 2

\* the store holds the genesis block, once, at the bottom of the chain
GenesisInPlace(ch, h) ==
    /\ h >= 0
    /\ ch # <<>>
    /\ {i \in 1..Len(ch) : ch[i].height = 0 \/ ch[i].previousBlockHash = Null}
           = {1}

(* C15: the genesis block is appended exactly once and is in place when the *)
(* constructor returns: no operation invoked after construction observes    *)
(* height -1 or an empty chain, and no later append takes the genesis       *)
(* branch (none starts from height -1, none adds a second block of height 0 *)
(* or of previousBlockHash null).                                           *)
C15_GenesisOnce ==
    [][/\ GenesisInPlace(chain, height)
       /\ GenesisInPlace(chain', height')
       /\ Len(chain') > Len(chain) =>
              /\ height # -1
              /\ chain'[Len(chain')].previousBlockHash # Null
              /\ chain'[Len(chain')].height # 0]_vars

\* a direct append found the genesis block in place and went above it
C15_Witness ==
    /\ Len(chain) >= 2
    /\ GenesisInPlace(chain, height)
    /\ chain[2].height = 1
    /\ \A s \in SubIds : subs[s].index # 2

\* the checkpoint of submitStar that the call s fails, if any
FailedCheckpoint(s) ==
    IF JsGt(Elapsed(subs[s].message, subs[s].at), Num(FiveMinutes))
    THEN "expired"
    ELSE IF Verify(subs[s].message, subs[s].address, subs[s].signature) # "true"
    THEN "signature"
    ELSE IF subs[s].validation = "invalid" THEN "validation"
    ELSE "none"

(* C16: every rejected submitStar call carries a reason that tells which    *)
(* checkpoint failed (two rejections with the same value failed the same    *)
(* checkpoint: expired challenge, signature check, validation after the     *)
(* append), and no call that failed a checkpoint ends without a rejection.  *)
C16_EveryFailureRejected ==
    /\ \A s \in SubIds :
           (subs[s].pc \in {"done", "hung"} /\ FailedCheckpoint(s) # "none") =>
               subs[s].state = "rejected"
    /\ \A s \in SubIds, t \in SubIds :
           (subs[s].state = "rejected" /\ subs[t].state = "rejected"
                /\ subs[s].value = subs[t].value) =>
               FailedCheckpoint(s) = FailedCheckpoint(t)

(* C17: the chain is append-only: across every step of the store            *)
(* operations (submitStar, _addBlock, the lookups, validateChain, the issue *)
(* of a challenge) the chain before the step is a prefix of the chain after *)
(* it, every block in it unchanged, and height does not decrease.           *)
C17_AppendOnly ==
    [][/\ Len(chain') >= Len(chain)
       /\ SubSeq(chain', 1, Len(chain)) = chain
       /\ height' >= height]_vars

\* the chain has grown by a submission and a direct call, and every kind of
\* operation has run
C17_Witness ==
    /\ Len(chain) >= 3
    /\ \E s \in SubIds : subs[s].index > 0 /\ subs[s].pc = "done"
    /\ vcall.called
    /\ found.called
    /\ stars.state = "resolved" /\ stars.pending = <<>>
    /\ issued # <<>>

(* C18: a successful submitStar increases height by exactly 1 and resolves  *)
(* with the block it appended: at its append that block is the new tail of  *)
(* the chain, with height the previous height + 1, previousBlockHash the    *)
(* previous tail's hash and a body built from the submitted (address,       *)
(* message, signature, star); when the call resolves, its value is that     *)
(* block, which is in the chain as it was appended.                         *)
C18_ResolvesWithAppended ==
    [][\A s \in SubIds :
          /\ (subs[s].index = 0 /\ subs'[s].index > 0) =>
                 LET b == subs'[s].block
                 IN /\ height' = height + 1
                    /\ chain' = Append(chain, b)
                    /\ b.height = height + 1
                    /\ b.previousBlockHash = chain[Len(chain)].hash
                    /\ b.body = <<subs'[s].address, subs'[s].message,
                                  subs'[s].signature, subs'[s].star>>
          /\ (subs[s].state = "pending" /\ subs'[s].state = "resolved") =>
                 /\ subs'[s].value = BlockValue
                 /\ subs'[s].index \in 1..Len(chain')
                 /\ chain'[subs'[s].index] = subs'[s].block
                 /\ subs'[s].block.body = <<subs'[s].address, subs'[s].message,
                                            subs'[s].signature, subs'[s].star>>
                 /\ subs'[s].block.height = subs'[s].index - 1]_vars

\* a submission has resolved with a block it put on top of a star block
C18_Witness ==
    \E s \in SubIds, t \in SubIds :
        /\ subs[s].state = "resolved"
        /\ subs[s].value = BlockValue
        /\ subs[s].index = 3
        /\ subs[t].index = 2

(* C19: in every reachable state getBlockByHeight(h) resolves with chain[h] *)
(* (the model's chain[h + 1]) for every h with 0 <= h <= height, and with   *)
(* null for every h outside that range.                                     *)
C19_BlockAtHeight ==
    [][\A h \in Heights :
          GetBlockByHeightCall(h) =>
              IF h \in 0..height
              THEN ~found'.null /\ found'.block = chain[h + 1]
              ELSE found'.null]_vars

\* the lookup has returned the topmost of three blocks
C19_Witness ==
    /\ Len(chain) >= 3
    /\ found.called /\ found.h = 2
    /\ ~found.null /\ found.block = chain[3]

\* the value with which each copy rejects a call whose verify returned false
SignatureRejection ==
    IF impl = "blockchain.js" THEN StringValue(VerifyError) ELSE BlockValue

(* C20: when the call of verify raises an exception instead of returning,   *)
(* submitStar treats it exactly like a false result: the call is rejected   *)
(* with the value of a signature failure, its promise settles in the job of *)
(* the call, and no block is appended.                                      *)
C20_RaiseIsFalse ==
    [][\A s \in SubIds :
          (/\ subs[s].pc = "idle" /\ subs'[s].pc # "idle"
           /\ subs'[s].verifyCalls = 1
           /\ Verify(subs'[s].message, subs'[s].address, subs'[s].signature)
                  \in {"throws", "false"}) =>
              /\ chain' = chain /\ height' = height
              /\ subs'[s].pc = "done"
              /\ subs'[s].index = 0
              /\ subs'[s].state = "rejected"
              /\ subs'[s].value = SignatureRejection]_vars

\* a call whose verify raised, rejected on a chain that holds a star block
C20_Witness ==
    \E s \in SubIds :
        /\ subs[s].signature = "malformed"
        /\ subs[s].verifyCalls = 1
        /\ subs[s].state = "rejected"
        /\ subs[s].value = SignatureRejection
        /\ Len(chain) >= 2

\* the addresses with no colon in them
ColonFree == {a \in WalletAddresses : \A i \in 1..Len(a) : a[i] # ":"}

\* the time submitStar reads out of a message issued now is the second of
\* the issue, and the message, submitted now, has elapsed 0
RoundTrip(message) ==
    /\ ParseInt(SecondField(message)) = Num(now \div 1000)
    /\ Elapsed(message, now) = Num(0)

(* C21: challenge round trip: for every address A and time of issue T, the  *)
(* time that submitStar parses out of the message that                      *)
(* requestMessageOwnershipVerification(A) returns at T (second field        *)
(* between colons) is T, so a challenge submitted at the instant of its     *)
(* issue has elapsed 0.                                                     *)
C21_RoundTrip ==
    [][\A a \in WalletAddresses :
          requestMessageOwnershipVerification(a) => RoundTrip(issued')]_vars

(* C21 as amended: the same for every address that holds no colon; a call   *)
(* of submitStar with such a message at the instant of its issue is not     *)
(* rejected as expired.                                                     *)
C21_RoundTripColonFree ==
    [][/\ \A a \in ColonFree :
             requestMessageOwnershipVerification(a) => RoundTrip(issued')
       /\ \A s \in SubIds, a \in ColonFree :
             (subs[s].pc = "idle" /\ subs'[s].pc # "idle"
                 /\ subs'[s].message = Challenge(a, now)) =>
                 ~RejectedAsExpired(s)']_vars

\* a challenge of a two-letter address, issued after the clock has moved and
\* submitted in the second of its issue, has been appended
C21_Witness ==
    \E s \in SubIds :
        /\ ticks > 0
        /\ issued = Challenge(<<"a", "a">>, now)
        /\ subs[s].message = issued
        /\ subs[s].at = now
        /\ subs[s].index > 0

(* C22: every submitStar call eventually settles: with its jobs scheduled   *)
(* fairly the promise it returned is in the end resolved or rejected, for   *)
(* every input and chain state, also when the validation after the append   *)
(* finds the chain invalid.                                                 *)
C22_SubmitStarSettles ==
    \A s \in SubIds : Started(s) ~> (subs[s].state # "pending")

(* C23: every validateChain call eventually settles its promise, whatever   *)
(* the chain holds, also a block that fails its own hash check or whose     *)
(* previousBlockHash is not the hash of the block before it.                *)
C23_ValidateChainSettles ==
    vcall.called ~> (vcall.settled # "pending")

====
